---- MODULE Spec2Model ----
(***************************************************************************)
(* The design canvas of the storefront (DesignCanvas, src/unnamed/part_000)*)
(* as a state machine: the component's useState cells, the requests it has *)
(* in flight, and the two collaborators it talks to (design persistence    *)
(* and the cart sink).                                                     *)
(*                                                                         *)
(* JavaScript strings that the code inspects character by character        *)
(* (trim, parseInt, parseFloat, toFixed) are sequences of one-character    *)
(* strings; identifiers and names the code only stores and compares are    *)
(* atomic strings.  Numbers that stand for money are held in hundredths.   *)
(***************************************************************************)
EXTENDS Integers, Sequences, FiniteSets, TLC

(***************************************************************************)
(* Bounds of the model.                                                    *)
(***************************************************************************)
\* most elements a design holds
MaxElements == 2
\* largest quantity the increase button is followed to
MaxQuantity == 3
\* most SavedDesign records created in one session
MaxDesigns == 2
\* most cart requests issued in one session
MaxCart == 1
\* the last millisecond the clock is followed to
MaxClock == 1

(***************************************************************************)
(* Program constants.                                                      *)
(***************************************************************************)
\* the flat design fee, in hundredths: the literal 5 of (elements.length > 0 ? 5 : 0)
flatDesignFee == 500
\* useState(24)
defaultFontSize == 24
\* useState(1)
defaultQuantity == 1

\* JavaScript's null / undefined, and the absent user
Null == "null"
NullProduct == [null |-> TRUE]
Undefined == [undefined |-> TRUE]
NoUser == "none"

\* A JavaScript number is Num(n), n an integer (money: in hundredths), or NaN
Num(n) == [v |-> n]
NaN == [nan |-> TRUE]

\* the null of a JSON text
JSONnull == [null |-> TRUE]

(***************************************************************************)
(* Strings and numbers.                                                    *)
(***************************************************************************)
Digits == {"0", "1", "2", "3", "4", "5", "6", "7", "8", "9"}
WhiteSpace == {" "}

DigitVal(c) ==
  CASE c = "0" -> 0 [] c = "1" -> 1 [] c = "2" -> 2 [] c = "3" -> 3
    [] c = "4" -> 4 [] c = "5" -> 5 [] c = "6" -> 6 [] c = "7" -> 7
    [] c = "8" -> 8 [] c = "9" -> 9

DigitChar(d) ==
  CASE d = 0 -> "0" [] d = 1 -> "1" [] d = 2 -> "2" [] d = 3 -> "3"
    [] d = 4 -> "4" [] d = 5 -> "5" [] d = 6 -> "6" [] d = 7 -> "7"
    [] d = 8 -> "8" [] d = 9 -> "9"

\* s without its first n characters
Drop(s, n) == SubSeq(s, n + 1, Len(s))

RECURSIVE trimStart(_)
trimStart(s) ==
  IF s # <<>> /\ Head(s) \in WhiteSpace THEN trimStart(Tail(s)) ELSE s

RECURSIVE trimEnd(_)
trimEnd(s) ==
  IF s # <<>> /\ s[Len(s)] \in WhiteSpace
  THEN trimEnd(SubSeq(s, 1, Len(s) - 1))
  ELSE s

\* String.prototype.trim
trim(s) == trimEnd(trimStart(s))

\* the length of the longest prefix of s made of digits
RECURSIVE DigitRun(_)
DigitRun(s) ==
  IF s # <<>> /\ Head(s) \in Digits THEN 1 + DigitRun(Tail(s)) ELSE 0

\* the value of a sequence of digits, most significant first
RECURSIVE DigitsValue(_)
DigitsValue(s) ==
  IF s = <<>> THEN 0
  ELSE 10 * DigitsValue(SubSeq(s, 1, Len(s) - 1)) + DigitVal(s[Len(s)])

\* the decimal digits of n >= 0, most significant first
RECURSIVE NatDigits(_)
NatDigits(n) ==
  IF n < 10 THEN <<DigitChar(n)>>
  ELSE Append(NatDigits(n \div 10), DigitChar(n % 10))

\* parseInt(s): leading white space, an optional sign, then the longest run
\* of digits; NaN when there is no digit
parseInt(s) ==
  LET t == trimStart(s)
      neg == t # <<>> /\ Head(t) = "-"
      u == IF t # <<>> /\ Head(t) \in {"-", "+"} THEN Tail(t) ELSE t
      n == DigitRun(u)
  IN  IF n = 0 THEN NaN
      ELSE IF neg THEN Num(0 - DigitsValue(SubSeq(u, 1, n)))
      ELSE Num(DigitsValue(SubSeq(u, 1, n)))

\* parseFloat(s), in hundredths: leading white space, an optional sign, digits,
\* an optional point and digits; NaN when there is no digit.  Fraction digits
\* past the second are not held (no base price of the model has any).
parseFloat(s) ==
  LET t == trimStart(s)
      neg == t # <<>> /\ Head(t) = "-"
      u == IF t # <<>> /\ Head(t) \in {"-", "+"} THEN Tail(t) ELSE t
      n == DigitRun(u)
      r == Drop(u, n)
      f == IF r # <<>> /\ Head(r) = "." THEN Tail(r) ELSE <<>>
      m == DigitRun(f)
      whole == DigitsValue(SubSeq(u, 1, n))
      tenths == IF m >= 1 THEN DigitVal(f[1]) ELSE 0
      hundredths == IF m >= 2 THEN DigitVal(f[2]) ELSE 0
      a == 100 * whole + 10 * tenths + hundredths
  IN  IF n = 0 /\ m = 0 THEN NaN
      ELSE IF neg THEN Num(0 - a) ELSE Num(a)

\* Number.prototype.toFixed(2) of a number held in hundredths
toFixed2(x) ==
  IF x = NaN THEN <<"N", "a", "N">>
  ELSE LET a == IF x.v < 0 THEN 0 - x.v ELSE x.v
           body == NatDigits(a \div 100)
                     \o <<".", DigitChar((a % 100) \div 10), DigitChar(a % 10)>>
       IN  IF x.v < 0 THEN <<"-">> \o body ELSE body

\* a + b, and a * b with b a whole number, on JavaScript numbers
NumAdd(a, b) == IF a = NaN \/ b = NaN THEN NaN ELSE Num(a.v + b.v)
NumTimes(a, b) == IF a = NaN \/ b = NaN THEN NaN ELSE Num(a.v * b.v)

\* x || 1 : NaN and 0 are falsy
OrOne(x) == IF x = NaN \/ x = Num(0) THEN Num(1) ELSE x

\* Math.max(1, x): NaN when x is NaN
MathMax1(x) == IF x = NaN THEN NaN ELSE IF x.v > 1 THEN x ELSE Num(1)

(***************************************************************************)
(* The data the canvas works on.                                           *)
(***************************************************************************)
\* the products of the shop
Catalog ==
  << [id |-> "p1", name |-> "Classic Tee", description |-> "Cotton tee",
      basePrice |-> <<"2", "0", ".", "0", "0">>, category |-> "tshirt",
      colors |-> <<"white", "black">>, sizes |-> <<"S", "M">>],
     [id |-> "p2", name |-> "Tote Bag", description |-> "Canvas tote",
      basePrice |-> <<"1", "5", ".", "5">>, category |-> "bag",
      colors |-> <<"natural">>, sizes |-> <<"L">>] >>

\* what GET /api/products can answer: the products in either order, or none
ProductLists == {Catalog, <<Catalog[2], Catalog[1]>>, <<>>}

\* what the user can have typed into the text input and the quantity input
TextInputs == {<<>>, <<" ">>, <<"H", "i">>}
QuantityInputs == {<<>>, <<"0">>, <<"-", "3">>, <<"x">>, <<"2">>, <<"3">>}

\* what the font-size input (type="number") can hold: nothing, or a number
FontSizeInputs == {<<>>, <<"0">>, <<"-", "3">>, <<"3", "6">>}

\* items of the font-family Select, and values of the color input
FontFamilyInputs == {"Arial", "Impact"}
TextColorInputs == {"#000000", "#ff0000"}

rectangle == <<"r", "e", "c", "t", "a", "n", "g", "l", "e">>
circle == <<"c", "i", "r", "c", "l", "e">>
ShapeTypes == {rectangle, circle}

Users == {NoUser, "u1"}

\* useAuth().user when nobody is signed in
NullUser == [null |-> TRUE]

\* the names and email /api/user can return for the signed-in user; a name
\* that was never given is null
UserRecords ==
  << [firstName |-> "Ann", lastName |-> "Lee", email |-> "ann@x.io"],
     [firstName |-> Null, lastName |-> "Lee", email |-> "ann@x.io"],
     [firstName |-> "Bea", lastName |-> "Lee", email |-> "bea@x.io"] >>

\* what can be typed into the fields of the profile form
FieldInputs ==
  [firstName : {"", "Bea"}, lastName : {"", "Lee"},
   email : {"bea", "bea@x.io"}]

\* user?.field || "": the empty string for no user and for a null or empty
\* value
orEmpty(u, field) ==
  IF u = NullUser THEN ""
  ELSE IF u[field] = Null THEN "" ELSE u[field]

\* the defaultValues of useForm, and the values handleCancel resets to
defaultValues(u) ==
  [firstName |-> orEmpty(u, "firstName"), lastName |-> orEmpty(u, "lastName"),
   email |-> orEmpty(u, "email")]

\* z.string().email() on the addresses of the model
isEmail(text) == text \in {"ann@x.io", "bea@x.io"}

\* profileUpdateSchema
profileUpdateSchema(data) ==
  /\ data.firstName # ""
  /\ data.lastName # ""
  /\ isEmail(data.email)

\* the colors loadTshirtImages fetches a mockup for, in the order it starts them
colors == <<"white", "black", "navy", "red", "natural">>

\* the file a color's mockup is fetched from: red and natural have none of
\* their own and fetch the white one
imageFileName(color) ==
  CASE color = "white" -> "White_t-shirt_mockup_a7316e72.png"
    [] color = "black" -> "Black_t-shirt_mockup_7b5db8b3.png"
    [] color = "navy" -> "Navy_t-shirt_mockup_dd640fd4.png"
    [] OTHER -> "White_t-shirt_mockup_a7316e72.png"

\* the Image object made for a color, once it has loaded: its file, and the
\* pixel size the file has (one as wide as the canvas is, one wider, one
\* taller)
Image(color) ==
  LET name == imageFileName(color) IN
  [of |-> color, name |-> name,
   width |-> CASE name = "Black_t-shirt_mockup_7b5db8b3.png" -> 800
               [] name = "Navy_t-shirt_mockup_dd640fd4.png" -> 600
               [] OTHER -> 640,
   height |-> CASE name = "Black_t-shirt_mockup_7b5db8b3.png" -> 600
                [] name = "Navy_t-shirt_mockup_dd640fd4.png" -> 900
                [] OTHER -> 768]

\* the elements of a sequence
Range(q) == {q[i] : i \in DOMAIN q}

\* products.find(p => p.id === value): the first match, or undefined
find(ps, value) ==
  IF \E i \in DOMAIN ps : ps[i].id = value
  THEN ps[CHOOSE i \in DOMAIN ps :
            /\ ps[i].id = value
            /\ \A j \in DOMAIN ps : ps[j].id = value => i <= j]
  ELSE NullProduct

(***************************************************************************)
(* State.                                                                  *)
(***************************************************************************)
VARIABLES
  user,            \* useAuth().user: the signed-in identity, or NoUser
  products,        \* useState<Product[]>([])
  fetching,        \* whether the GET /api/products of fetchProducts is out
  selectedProduct, \* useState<Product | null>(null)
  elements,        \* useState<DesignElement[]>([])
  selectedColor,   \* useState('white')
  selectedSize,    \* useState('M')
  textInput,       \* useState('')
  textColor,       \* useState('#000000')
  fontSize,        \* useState(24)
  fontFamily,      \* useState('Arial')
  quantity,        \* useState(1)
  isLoading,       \* useState(false)
  savedDesignId,   \* useState<string | null>(null)
  tshirtImages,    \* useState<{[key: string]: HTMLImageElement}>({})
  imagesLoaded,    \* useState(false)
  imageMap,        \* the imageMap of loadTshirtImages, filled as the images settle
  imagePromises,   \* per color, whether its image is "pending", "loaded" or "failed"
  canvas,          \* what the <canvas> shows: the draw calls since its last clearRect
  now,             \* the clock Date.now() reads
  calls,           \* the saveDesign / addToCartWithDesign calls awaiting a response
  designs,         \* the SavedDesign records the persistence collaborator has
                   \* made, a deleted one reduced to its id
  cartRequests,    \* the cart items handed to addToCartMutation.mutateAsync
  userDesigns,     \* the designs page: data of the "user-designs" query
  isFetching,      \* the designs page: the query's GET /api/designs is out
  error,           \* the designs page: the query's last fetch failed
  deletePending,   \* the designs page: the id deleteDesignMutation is deleting
  isEditing,       \* the profile page: useState(false)
  form,            \* the profile page: the values of the useForm fields
  profile,         \* the profile page: the names and email of useAuth().user
  updateProfileMutation, \* the profile page: the data of the pending PUT
  userQueryInvalidated,  \* whether the ["/api/user"] query is to fetch again
  lastToast        \* the most recent toast

uiVars == <<products, fetching, selectedProduct, elements, selectedColor,
            selectedSize, textInput, textColor, fontSize, fontFamily, quantity,
            isLoading, savedDesignId>>
imgVars == <<tshirtImages, imagesLoaded, imageMap, imagePromises>>
envVars == <<user, now>>
netVars == <<calls, designs, cartRequests>>
profVars == <<isEditing, form, profile, updateProfileMutation,
              userQueryInvalidated>>
pageVars == <<userDesigns, isFetching, error, deletePending, profVars>>
vars == <<uiVars, imgVars, canvas, envVars, netVars, pageVars, lastToast>>

(***************************************************************************)
(* drawCanvas: the draw calls it makes on the 2D context, in order.        *)
(***************************************************************************)
\* <canvas width={320} height={384}>
canvasWidth == 320
canvasHeight == 384

\* tshirtImages[color]: the image, or undefined
imageOf(images, color) ==
  IF color \in DOMAIN images THEN images[color] ELSE Undefined

\* the solid fill of the branch taken when there is an image (never reached
\* there: the branch is entered only with an image)
fallbackFill(color) ==
  CASE color = "white" -> "#ffffff"
    [] color = "black" -> "#000000"
    [] color = "navy" -> "#1e3a8a"
    [] color = "red" -> "#ef4444"
    [] OTHER -> "#ffffff"

\* the solid fill of the branch taken when there is no image
solidFill(color) ==
  CASE color = "white" -> "#ffffff"
    [] color = "black" -> "#000000"
    [] color = "navy" -> "#1e3a8a"
    [] color = "red" -> "#ef4444"
    [] color = "natural" -> "#f5f5dc"
    [] OTHER -> "#ffffff"

\* the image scaled to fit within the canvas, its aspect ratio kept
\* (imageRatio > canvasRatio, cross-multiplied; the quotients of the model's
\* image sizes are whole)
fitImage(img) ==
  IF img.width * canvasHeight > img.height * canvasWidth
  THEN LET drawHeight == (canvasWidth * img.height) \div img.width IN
       [op |-> "drawImage", image |-> img.name, x |-> 0,
        y |-> (canvasHeight - drawHeight) \div 2,
        width |-> canvasWidth, height |-> drawHeight]
  ELSE LET drawWidth == (canvasHeight * img.width) \div img.height IN
       [op |-> "drawImage", image |-> img.name,
        x |-> (canvasWidth - drawWidth) \div 2, y |-> 0,
        width |-> drawWidth, height |-> canvasHeight]

fillCanvas(style) ==
  [op |-> "fillRect", fillStyle |-> style, x |-> 0, y |-> 0,
   width |-> canvasWidth, height |-> canvasHeight]

\* a background that looks at the image alone
drawBackgroundOfImage(product, color, images, loaded) ==
  LET tshirtImage == imageOf(images, color) IN
  IF tshirtImage # Undefined /\ loaded
  THEN fitImage(tshirtImage)
  ELSE fillCanvas(solidFill(color))

drawBackground(product, color, images, loaded) ==
  LET tshirtImage == imageOf(images, color) IN
  IF product # NullProduct /\ tshirtImage # Undefined /\ loaded
  THEN IF tshirtImage # Undefined
       THEN fitImage(tshirtImage)
       ELSE fillCanvas(fallbackFill(color))
  ELSE fillCanvas(solidFill(color))

drawBorder ==
  [op |-> "strokeRect", strokeStyle |-> "#e5e7eb", lineWidth |-> 2, x |-> 0,
   y |-> 0, width |-> canvasWidth, height |-> canvasHeight]

\* x || 24 on a font size: 0, NaN, null and undefined are falsy
fontSizeOr24(el) ==
  IF "fontSize" \notin DOMAIN el THEN Num(24)
  ELSE IF el.fontSize \in {NaN, Num(0), JSONnull} THEN Num(24)
  ELSE el.fontSize

fontFamilyOrArial(el) ==
  IF "fontFamily" \notin DOMAIN el \/ el.fontFamily = "" THEN "Arial"
  ELSE el.fontFamily

\* the draw calls of one element: none for a shape that is neither a
\* rectangle nor a circle
drawElement(el) ==
  IF el.type = "text"
  THEN << [op |-> "fillText", fillStyle |-> el.color,
           fontPx |-> fontSizeOr24(el), fontFamily |-> fontFamilyOrArial(el),
           textAlign |-> "center", text |-> el.content, x |-> el.x, y |-> el.y] >>
  ELSE IF el.type = "shape"
  THEN IF el.content = rectangle
       THEN << [op |-> "fillRect", fillStyle |-> el.color,
                x |-> el.x - el.width \div 2, y |-> el.y - el.height \div 2,
                width |-> el.width, height |-> el.height] >>
       ELSE IF el.content = circle
       THEN << [op |-> "arc", fillStyle |-> el.color, x |-> el.x, y |-> el.y,
                radius |-> el.width \div 2] >>
       ELSE <<>>
  ELSE <<>>

RECURSIVE drawElements(_)
drawElements(els) ==
  IF els = <<>> THEN <<>>
  ELSE drawElement(Head(els)) \o drawElements(Tail(els))

\* String.prototype.toUpperCase on the color names
toUpperCase(color) ==
  CASE color = "white" -> "WHITE"
    [] color = "black" -> "BLACK"
    [] color = "navy" -> "NAVY"
    [] color = "red" -> "RED"
    [] color = "natural" -> "NATURAL"
    [] OTHER -> color

\* an overlay that shows the product alone
drawLabelOfProduct(product, color) ==
  IF product # NullProduct
  THEN << [op |-> "fillRect", fillStyle |-> "rgba(0, 0, 0, 0.7)", x |-> 5,
           y |-> 5, width |-> 200, height |-> 25],
          [op |-> "fillText", fillStyle |-> "#ffffff", fontPx |-> Num(12),
           fontFamily |-> "Arial", textAlign |-> "left",
           text |-> <<product.name>>, x |-> 10, y |-> 22] >>
  ELSE <<>>

\* the product info overlay
drawLabel(product, color) ==
  IF product # NullProduct
  THEN << [op |-> "fillRect", fillStyle |-> "rgba(0, 0, 0, 0.7)", x |-> 5,
           y |-> 5, width |-> 200, height |-> 25],
          [op |-> "fillText", fillStyle |-> "#ffffff", fontPx |-> Num(12),
           fontFamily |-> "Arial", textAlign |-> "left",
           text |-> <<product.name, " - ", toUpperCase(color)>>,
           x |-> 10, y |-> 22] >>
  ELSE <<>>

\* a drawing with the overlay under the elements
drawCanvasLabelFirst(product, color, els, images, loaded) ==
  << [op |-> "clearRect", x |-> 0, y |-> 0, width |-> canvasWidth,
      height |-> canvasHeight],
     drawBackground(product, color, images, loaded),
     drawBorder >>
    \o drawLabel(product, color)
    \o drawElements(els)

drawCanvas(product, color, els, images, loaded) ==
  << [op |-> "clearRect", x |-> 0, y |-> 0, width |-> canvasWidth,
      height |-> canvasHeight],
     drawBackground(product, color, images, loaded),
     drawBorder >>
    \o drawElements(els)
    \o drawLabel(product, color)

\* canvas.toDataURL('image/png'): the picture, encoded
toDataURL(picture) == [png |-> picture]

\* the DesignState of the session
DesignState ==
  [product |-> selectedProduct, color |-> selectedColor, size |-> selectedSize,
   quantity |-> quantity, elements |-> elements, savedDesignId |-> savedDesignId]

Init ==
  /\ user \in Users
  /\ products = <<>>
  /\ fetching = TRUE
  /\ selectedProduct = NullProduct
  /\ elements = <<>>
  /\ selectedColor = "white"
  /\ selectedSize = "M"
  /\ textInput = <<>>
  /\ textColor = "#000000"
  /\ fontSize = Num(defaultFontSize)
  /\ fontFamily = "Arial"
  /\ quantity = Num(defaultQuantity)
  /\ isLoading = FALSE
  /\ savedDesignId = Null
  /\ tshirtImages = <<>>
  /\ imagesLoaded = FALSE
  /\ imageMap = <<>>
  /\ imagePromises = [color \in Range(colors) |-> "pending"]
  /\ canvas = drawCanvas(selectedProduct, selectedColor, elements, tshirtImages,
                         imagesLoaded)
  /\ now = 0
  /\ calls = <<>>
  /\ designs = <<>>
  /\ cartRequests = <<>>
  /\ userDesigns = <<>>
  /\ isFetching = FALSE
  /\ error = FALSE
  /\ deletePending = Null
  /\ isEditing = FALSE
  /\ profile = IF user = NoUser THEN NullUser ELSE UserRecords[1]
  /\ form = defaultValues(profile)
  /\ updateProfileMutation = Undefined
  /\ userQueryInvalidated = FALSE
  /\ lastToast = "none"

(***************************************************************************)
(* Pricing, as the properties panel and addToCartWithDesign compute it.    *)
(***************************************************************************)
\* a fee charged for every element instead of once
unitPricePerElement(product, els) ==
  NumAdd(parseFloat(product.basePrice), Num(flatDesignFee * Len(els)))

\* parseFloat(product.basePrice) + (elements.length > 0 ? 5 : 0)
unitPrice(product, els) ==
  NumAdd(parseFloat(product.basePrice),
         IF Len(els) > 0 THEN Num(flatDesignFee) ELSE Num(0))

\* the "Unit Price:" line and the add-to-cart button's label
unitPriceText(product, els) == toFixed2(unitPrice(product, els))

\* a total that charges the design fee once, not once per unit
totalPriceFeeOnce(product, els, qty) ==
  toFixed2(NumAdd(NumTimes(parseFloat(product.basePrice), qty),
                  IF Len(els) > 0 THEN Num(flatDesignFee) ELSE Num(0)))

\* the "Total (Nx):" line
totalPriceText(product, els, qty) ==
  toFixed2(NumTimes(unitPrice(product, els), qty))

\* an effect whose dependencies are the selection and the flag alone
redrawOnSelection ==
  IF <<selectedColor, selectedProduct, imagesLoaded>>'
       # <<selectedColor, selectedProduct, imagesLoaded>>
  THEN canvas' = drawCanvas(selectedProduct', selectedColor', elements',
                            tshirtImages', imagesLoaded')
  ELSE UNCHANGED canvas

\* the effect on [elements, selectedColor, selectedProduct, imagesLoaded]: it runs
\* drawCanvas after a render in which one of them changed
redraw ==
  IF <<elements, selectedColor, selectedProduct, imagesLoaded>>'
       # <<elements, selectedColor, selectedProduct, imagesLoaded>>
  THEN canvas' = drawCanvas(selectedProduct', selectedColor', elements',
                            tshirtImages', imagesLoaded')
  ELSE UNCHANGED canvas

(***************************************************************************)
(* loadTshirtImages: the five images settle in any order.                  *)
(***************************************************************************)
\* imageMap[color] = img
put(map, color, img) ==
  [c \in DOMAIN map \cup {color} |-> IF c = color THEN img ELSE map[c]]

\* a loadTshirtImages that goes on only when every image has loaded
afterPromiseAllLoaded ==
  IF \A color \in Range(colors) : imagePromises'[color] = "loaded"
  THEN /\ tshirtImages' = imageMap'
       /\ imagesLoaded' = TRUE
  ELSE UNCHANGED <<tshirtImages, imagesLoaded>>

\* what follows "await Promise.all(imagePromises)" once the last image has
\* settled: the map and the flag are set in one render, and the canvas is
\* drawn again
afterPromiseAll ==
  IF \A color \in Range(colors) : imagePromises'[color] # "pending"
  THEN /\ tshirtImages' = imageMap'
       /\ imagesLoaded' = TRUE
  ELSE UNCHANGED <<tshirtImages, imagesLoaded>>

\* img.onload of a color's image
onload ==
  /\ \E color \in Range(colors) :
       /\ imagePromises[color] = "pending"
       /\ imageMap' = put(imageMap, color, Image(color))
       /\ imagePromises' = [imagePromises EXCEPT ![color] = "loaded"]
  /\ afterPromiseAll
  /\ UNCHANGED <<uiVars, envVars, pageVars, netVars, lastToast>>
  /\ redraw

\* img.onerror of a color's image: the white image stands in, when the map
\* holds it already
onerror ==
  /\ \E color \in Range(colors) :
       /\ imagePromises[color] = "pending"
       /\ IF color # "white" /\ imageOf(imageMap, "white") # Undefined
          THEN imageMap' = put(imageMap, color, imageMap["white"])
          ELSE UNCHANGED imageMap
       /\ imagePromises' = [imagePromises EXCEPT ![color] = "failed"]
  /\ afterPromiseAll
  /\ UNCHANGED <<uiVars, envVars, pageVars, netVars, lastToast>>
  /\ redraw

(***************************************************************************)
(* fetchProducts, and the selection handlers.                              *)
(***************************************************************************)
\* the response of GET /api/products arrives
fetchProductsOk ==
  /\ fetching
  /\ \E data \in ProductLists :
       /\ products' = data
       /\ IF Len(data) > 0
          THEN /\ selectedProduct' = data[1]
               /\ selectedColor' = data[1].colors[1]
               /\ selectedSize' = data[1].sizes[1]
          ELSE UNCHANGED <<selectedProduct, selectedColor, selectedSize>>
  /\ fetching' = FALSE
  /\ UNCHANGED <<elements, textInput, textColor, fontSize, fontFamily, quantity,
                 isLoading, savedDesignId, imgVars, envVars, pageVars, netVars,
                 lastToast>>
  /\ redraw

\* the request fails, or its body is no JSON
fetchProductsFailed ==
  /\ fetching
  /\ fetching' = FALSE
  /\ lastToast' = "Failed to load products"
  /\ UNCHANGED <<products, selectedProduct, elements, selectedColor, selectedSize,
                 textInput, textColor, fontSize, fontFamily, quantity, isLoading,
                 savedDesignId, imgVars, canvas, envVars, pageVars, netVars>>

\* a product Select that keeps the color and the size
selectProductKeepingSelection ==
  /\ \E i \in DOMAIN products :
       /\ selectedProduct = NullProduct \/ products[i].id # selectedProduct.id
       /\ selectedProduct' = products[i]
  /\ UNCHANGED <<products, fetching, elements, selectedColor, selectedSize,
                 textInput, textColor, fontSize, fontFamily, quantity, isLoading,
                 savedDesignId, imgVars, envVars, pageVars, netVars, lastToast>>
  /\ redraw

\* a product Select that starts a new design
selectProductClearingElements ==
  /\ \E i \in DOMAIN products :
       /\ selectedProduct = NullProduct \/ products[i].id # selectedProduct.id
       /\ selectedProduct' = products[i]
       /\ selectedColor' = products[i].colors[1]
       /\ selectedSize' = products[i].sizes[1]
  /\ elements' = <<>>
  /\ UNCHANGED <<products, fetching, textInput, textColor, fontSize, fontFamily,
                 quantity, isLoading, savedDesignId, imgVars, envVars,
                 pageVars, netVars,
                 lastToast>>
  /\ redraw

\* the product Select: its items are the fetched products, and it reports a
\* value only when the value changes
selectProduct ==
  /\ \E i \in DOMAIN products :
       LET product == find(products, products[i].id) IN
       /\ selectedProduct = NullProduct \/ products[i].id # selectedProduct.id
       /\ product # NullProduct
       /\ selectedProduct' = product
       /\ selectedColor' = product.colors[1]
       /\ selectedSize' = product.sizes[1]
  /\ UNCHANGED <<products, fetching, elements, textInput, textColor, fontSize,
                 fontFamily, quantity, isLoading, savedDesignId, imgVars,
                 envVars, pageVars,
                 netVars, lastToast>>
  /\ redraw

\* the color Select and the color swatches: their items are the selected
\* product's colors, and the chosen one is stored as it is
selectColor ==
  /\ selectedProduct # NullProduct
  /\ \E color \in Range(selectedProduct.colors) : selectedColor' = color
  /\ UNCHANGED <<products, fetching, selectedProduct, elements, selectedSize,
                 textInput, textColor, fontSize, fontFamily, quantity, isLoading,
                 savedDesignId, imgVars, envVars, pageVars, netVars, lastToast>>
  /\ redraw

\* the two size Selects: their items are the selected product's sizes
selectSize ==
  /\ selectedProduct # NullProduct
  /\ \E size \in Range(selectedProduct.sizes) : selectedSize' = size
  /\ UNCHANGED <<products, fetching, selectedProduct, elements, selectedColor,
                 textInput, textColor, fontSize, fontFamily, quantity, isLoading,
                 savedDesignId, imgVars, envVars, pageVars, netVars, lastToast>>
  /\ redraw

(***************************************************************************)
(* The quantity controls.                                                  *)
(***************************************************************************)
\* the onChange without its "|| 1"
quantityFromInputNoDefault(value) == MathMax1(parseInt(value))

\* onChange of the quantity input: Math.max(1, parseInt(e.target.value) || 1)
quantityFromInput(value) == MathMax1(OrOne(parseInt(value)))

\* the decrease button: Math.max(1, quantity - 1)
quantityDecreased(q) == MathMax1(NumAdd(q, Num(0 - 1)))

\* the increase button: quantity + 1
quantityIncreased(q) == NumAdd(q, Num(1))

typeQuantity ==
  /\ \E value \in QuantityInputs : quantity' = quantityFromInput(value)
  /\ UNCHANGED <<products, fetching, selectedProduct, elements, selectedColor,
                 selectedSize, textInput, textColor, fontSize, fontFamily,
                 isLoading, savedDesignId, imgVars, canvas, envVars, pageVars,
                 netVars,
                 lastToast>>

decreaseQuantity ==
  /\ quantity' = quantityDecreased(quantity)
  /\ UNCHANGED <<products, fetching, selectedProduct, elements, selectedColor,
                 selectedSize, textInput, textColor, fontSize, fontFamily,
                 isLoading, savedDesignId, imgVars, canvas, envVars, pageVars,
                 netVars,
                 lastToast>>

increaseQuantity ==
  /\ quantity # NaN
  /\ quantity.v < MaxQuantity
  /\ quantity' = quantityIncreased(quantity)
  /\ UNCHANGED <<products, fetching, selectedProduct, elements, selectedColor,
                 selectedSize, textInput, textColor, fontSize, fontFamily,
                 isLoading, savedDesignId, imgVars, canvas, envVars, pageVars,
                 netVars,
                 lastToast>>

(***************************************************************************)
(* The design tools.                                                       *)
(***************************************************************************)
\* onChange of the text input
setTextInput ==
  /\ \E value \in TextInputs : textInput' = value
  /\ UNCHANGED <<products, fetching, selectedProduct, elements, selectedColor,
                 selectedSize, textColor, fontSize, fontFamily, quantity,
                 isLoading, savedDesignId, imgVars, canvas, envVars, pageVars,
                 netVars,
                 lastToast>>

\* onChange of the font-size input: setFontSize(parseInt(e.target.value))
setFontSize ==
  /\ \E value \in FontSizeInputs : fontSize' = parseInt(value)
  /\ UNCHANGED <<products, fetching, selectedProduct, elements, selectedColor,
                 selectedSize, textInput, textColor, fontFamily, quantity,
                 isLoading, savedDesignId, imgVars, canvas, envVars, pageVars,
                 netVars, lastToast>>

\* the font-family Select, which reports a value only when it changes
setFontFamily ==
  /\ \E value \in FontFamilyInputs :
       /\ value # fontFamily
       /\ fontFamily' = value
  /\ UNCHANGED <<products, fetching, selectedProduct, elements, selectedColor,
                 selectedSize, textInput, textColor, fontSize, quantity,
                 isLoading, savedDesignId, imgVars, canvas, envVars, pageVars,
                 netVars, lastToast>>

\* onChange of the color input
setTextColor ==
  /\ \E value \in TextColorInputs : textColor' = value
  /\ UNCHANGED <<products, fetching, selectedProduct, elements, selectedColor,
                 selectedSize, textInput, fontSize, fontFamily, quantity,
                 isLoading, savedDesignId, imgVars, canvas, envVars, pageVars,
                 netVars, lastToast>>

\* the clock advances
tick ==
  /\ now < MaxClock
  /\ now' = now + 1
  /\ UNCHANGED <<uiVars, imgVars, canvas, user, netVars, pageVars,
                 lastToast>>

\* the element addText builds
newTextElement ==
  [id |-> now, type |-> "text", content |-> textInput, x |-> 160, y |-> 200,
   width |-> 100, height |-> 30, color |-> textColor, fontSize |-> fontSize,
   fontFamily |-> fontFamily]

\* the element addShape builds
newShapeElement(shapeType) ==
  [id |-> now, type |-> "shape", content |-> shapeType, x |-> 160, y |-> 200,
   width |-> 60, height |-> 60, color |-> textColor]

\* the test without its trim()
textIsEmpty(text) == text = <<>>

\* whether addText returns at once: !textInput.trim()
textIsBlank(text) == trim(text) = <<>>

\* the "Add Text to Design" button
addText ==
  /\ IF textIsBlank(textInput)
     THEN UNCHANGED <<elements, textInput>>
     ELSE /\ Len(elements) < MaxElements
          /\ elements' = Append(elements, newTextElement)
          /\ textInput' = <<>>
  /\ UNCHANGED <<products, fetching, selectedProduct, selectedColor, selectedSize,
                 textColor, fontSize, fontFamily, quantity, isLoading,
                 savedDesignId, imgVars, envVars, pageVars, netVars, lastToast>>
  /\ redraw

\* an addShape that puts the new element in front
addShapeInFront ==
  /\ Len(elements) < MaxElements
  /\ \E shapeType \in ShapeTypes :
       elements' = <<newShapeElement(shapeType)>> \o elements
  /\ UNCHANGED <<products, fetching, selectedProduct, selectedColor, selectedSize,
                 textInput, textColor, fontSize, fontFamily, quantity, isLoading,
                 savedDesignId, imgVars, envVars, pageVars, netVars, lastToast>>
  /\ redraw

\* the rectangle and circle buttons
addShape ==
  /\ Len(elements) < MaxElements
  /\ \E shapeType \in ShapeTypes :
       elements' = Append(elements, newShapeElement(shapeType))
  /\ UNCHANGED <<products, fetching, selectedProduct, selectedColor, selectedSize,
                 textInput, textColor, fontSize, fontFamily, quantity, isLoading,
                 savedDesignId, imgVars, envVars, pageVars, netVars, lastToast>>
  /\ redraw

(***************************************************************************)
(* Design persistence and the cart sink.                                   *)
(***************************************************************************)
\* the identifier the persistence collaborator gives its n-th record
designIdOf(n) ==
  CASE n = 1 -> "d1" [] n = 2 -> "d2" [] n = 3 -> "d3" [] n = 4 -> "d4"
    [] OTHER -> "d5"

\* s without its i-th entry
Remove(q, i) == SubSeq(q, 1, i - 1) \o SubSeq(q, i + 1, Len(q))

\* the create requests that are out
pendingCreates == {i \in DOMAIN calls : calls[i].awaiting = "createDesign"}

\* JSON.stringify on an element: its strings and numbers are written as they
\* are, but a number that is NaN is written as null
stringifyElement(el) ==
  IF "fontSize" \in DOMAIN el /\ el.fontSize = NaN
  THEN [el EXCEPT !.fontSize = JSONnull]
  ELSE el

\* JSON.stringify on the body of the create request: the text, held as the
\* value it reads back as
stringify(body) ==
  [body EXCEPT !.designData.elements =
                 [i \in DOMAIN @ |-> stringifyElement(@[i])]]

\* the body saveDesign posts to /api/designs
saveDesignBody ==
  stringify([name |-> <<selectedProduct.name, " Design">>,
             designData |-> [product |-> selectedProduct,
                             elements |-> elements,
                             color |-> selectedColor, size |-> selectedSize],
             thumbnail |-> toDataURL(canvas)])

\* the item addToCartWithDesign hands to the cart mutation, built from the
\* state of the render whose handler is running
cartItemData(product, els, qty, size, color, designId) ==
  [productId |-> product.id, designId |-> designId, quantity |-> qty,
   size |-> size, color |-> color, customPrice |-> unitPriceText(product, els)]

\* a cart request as it leaves, with the element sequence it was built from
cartRequest(product, els, qty, size, color, designId) ==
  [item |-> cartItemData(product, els, qty, size, color, designId),
   elements |-> els]

\* the record POST /api/designs creates
createdDesign(body) ==
  [id |-> designIdOf(Len(designs) + 1), name |-> body.name,
   designData |-> body.designData, thumbnail |-> body.thumbnail,
   userId |-> user]

\* the save and add-to-cart buttons: disabled={isLoading || !selectedProduct}
buttonsEnabled == ~isLoading /\ selectedProduct # NullProduct

\* a saveDesign without its check of the product and the elements
saveDesignUnvalidated ==
  /\ buttonsEnabled
  /\ IF user = NoUser
     THEN /\ lastToast' = "Please login to save designs"
          /\ UNCHANGED <<isLoading, calls>>
     ELSE /\ Len(designs) + Cardinality(pendingCreates) < MaxDesigns
          /\ isLoading' = TRUE
          /\ calls' = Append(calls, [fn |-> "saveDesign",
                                     awaiting |-> "createDesign",
                                     body |-> saveDesignBody])
          /\ UNCHANGED lastToast
  /\ UNCHANGED <<products, fetching, selectedProduct, elements, selectedColor,
                 selectedSize, textInput, textColor, fontSize, fontFamily,
                 quantity, savedDesignId, imgVars, canvas, envVars, pageVars,
                 designs,
                 cartRequests>>

\* the "Save Design" button: saveDesign up to its await
saveDesign ==
  /\ buttonsEnabled
  /\ IF user = NoUser
     THEN /\ lastToast' = "Please login to save designs"
          /\ UNCHANGED <<isLoading, calls>>
     ELSE IF selectedProduct = NullProduct \/ Len(elements) = 0
     THEN /\ lastToast' = "Please select a product and add some design elements"
          /\ UNCHANGED <<isLoading, calls>>
     ELSE /\ Len(designs) + Cardinality(pendingCreates) < MaxDesigns
          /\ isLoading' = TRUE
          /\ calls' = Append(calls, [fn |-> "saveDesign",
                                     awaiting |-> "createDesign",
                                     body |-> saveDesignBody])
          /\ UNCHANGED lastToast
  /\ UNCHANGED <<products, fetching, selectedProduct, elements, selectedColor,
                 selectedSize, textInput, textColor, fontSize, fontFamily,
                 quantity, savedDesignId, imgVars, canvas, envVars, pageVars,
                 designs,
                 cartRequests>>

\* an addToCartWithDesign without its check of the user
addToCartWithDesignUnchecked ==
  /\ buttonsEnabled
  /\ Len(cartRequests)
       + Cardinality({i \in DOMAIN calls :
                        /\ calls[i].fn = "addToCartWithDesign"
                        /\ calls[i].awaiting = "createDesign"}) < MaxCart
  /\ isLoading' = TRUE
  /\ UNCHANGED lastToast
  /\ IF Len(elements) > 0 /\ savedDesignId = Null
     THEN /\ Len(designs) + Cardinality(pendingCreates) < MaxDesigns
          /\ calls' = Append(calls,
               [fn |-> "addToCartWithDesign", awaiting |-> "createDesign",
                body |-> saveDesignBody,
                product |-> selectedProduct, elements |-> elements,
                quantity |-> quantity, size |-> selectedSize,
                color |-> selectedColor, savedDesignId |-> savedDesignId])
          /\ UNCHANGED cartRequests
     ELSE /\ calls' = Append(calls, [fn |-> "addToCartWithDesign",
                                     awaiting |-> "addCartItem",
                                     savedDesignId |-> savedDesignId,
                                     designId |-> savedDesignId])
          /\ cartRequests' = Append(cartRequests,
               cartRequest(selectedProduct, elements, quantity,
                           selectedSize, selectedColor, savedDesignId))
  /\ UNCHANGED <<products, fetching, selectedProduct, elements, selectedColor,
                 selectedSize, textInput, textColor, fontSize, fontFamily,
                 quantity, savedDesignId, imgVars, canvas, envVars, pageVars,
                 designs>>

\* the "Add to Cart" button: addToCartWithDesign up to its first await, which
\* is the create request of saveDesign when the design has elements and no
\* saved id, and the cart request otherwise.  The call keeps what its closure
\* holds: the state of the render in which the button was pressed, and the
\* local designId once it is set
addToCartWithDesign ==
  /\ buttonsEnabled
  /\ IF user = NoUser
     THEN /\ lastToast' = "Please login to add items to cart"
          /\ UNCHANGED <<isLoading, calls, cartRequests>>
     ELSE IF selectedProduct = NullProduct
     THEN /\ lastToast' = "Please select a product first"
          /\ UNCHANGED <<isLoading, calls, cartRequests>>
     ELSE /\ Len(cartRequests)
               + Cardinality({i \in DOMAIN calls :
                                /\ calls[i].fn = "addToCartWithDesign"
                                /\ calls[i].awaiting = "createDesign"}) < MaxCart
          /\ isLoading' = TRUE
          /\ UNCHANGED lastToast
          /\ IF Len(elements) > 0 /\ savedDesignId = Null
             THEN /\ Len(designs) + Cardinality(pendingCreates) < MaxDesigns
                  /\ calls' = Append(calls,
                       [fn |-> "addToCartWithDesign", awaiting |-> "createDesign",
                        body |-> saveDesignBody,
                        product |-> selectedProduct, elements |-> elements,
                        quantity |-> quantity, size |-> selectedSize,
                        color |-> selectedColor,
                        savedDesignId |-> savedDesignId])
                  /\ UNCHANGED cartRequests
             ELSE /\ calls' = Append(calls, [fn |-> "addToCartWithDesign",
                                             awaiting |-> "addCartItem",
                                             savedDesignId |-> savedDesignId,
                                             designId |-> savedDesignId])
                  /\ cartRequests' = Append(cartRequests,
                       cartRequest(selectedProduct, elements, quantity,
                                   selectedSize, selectedColor, savedDesignId))
  /\ UNCHANGED <<products, fetching, selectedProduct, elements, selectedColor,
                 selectedSize, textInput, textColor, fontSize, fontFamily,
                 quantity, savedDesignId, imgVars, canvas, envVars, pageVars,
                 designs>>

\* what a call does once its saveDesign has returned designId: a direct save
\* is over; an add-to-cart goes on to hand its item to the cart mutation
afterSave(i, designId) ==
  LET c == calls[i] IN
  IF c.fn = "saveDesign"
  THEN /\ calls' = Remove(calls, i)
       /\ UNCHANGED cartRequests
  ELSE /\ calls' = [calls EXCEPT ![i] = [fn |-> "addToCartWithDesign",
                                         awaiting |-> "addCartItem",
                                         savedDesignId |-> c.savedDesignId,
                                         designId |-> designId]]
       /\ cartRequests' = Append(cartRequests,
            cartRequest(c.product, c.elements, c.quantity, c.size, c.color,
                        designId))

\* POST /api/designs answers OK with the record it created
createDesignOk ==
  /\ \E i \in pendingCreates :
       LET savedDesign == createdDesign(calls[i].body) IN
       /\ designs' = Append(designs, savedDesign)
       /\ savedDesignId' = savedDesign.id
       /\ afterSave(i, savedDesign.id)
  /\ lastToast' = "Design saved successfully!"
  /\ isLoading' = FALSE
  /\ UNCHANGED <<products, fetching, selectedProduct, elements, selectedColor,
                 selectedSize, textInput, textColor, fontSize, fontFamily,
                 quantity, imgVars, canvas, envVars, pageVars>>

\* a catch of saveDesign that starts the design over
createDesignFailedClearingElements ==
  /\ \E i \in pendingCreates : afterSave(i, Null)
  /\ lastToast' = "Failed to save design"
  /\ isLoading' = FALSE
  /\ elements' = <<>>
  /\ UNCHANGED <<products, fetching, selectedProduct, selectedColor,
                 selectedSize, textInput, textColor, fontSize, fontFamily,
                 quantity, savedDesignId, imgVars, envVars, pageVars, designs>>
  /\ redraw

\* a catch of saveDesign that forgets the saved design
createDesignFailedForgettingId ==
  /\ \E i \in pendingCreates : afterSave(i, Null)
  /\ lastToast' = "Failed to save design"
  /\ isLoading' = FALSE
  /\ savedDesignId' = Null
  /\ UNCHANGED <<products, fetching, selectedProduct, elements, selectedColor,
                 selectedSize, textInput, textColor, fontSize, fontFamily,
                 quantity, imgVars, canvas, envVars, pageVars, designs>>

\* a saveDesign whose catch returns without the finally
createDesignFailedStillLoading ==
  /\ \E i \in pendingCreates : afterSave(i, Null)
  /\ lastToast' = "Failed to save design"
  /\ UNCHANGED <<products, fetching, selectedProduct, elements, selectedColor,
                 selectedSize, textInput, textColor, fontSize, fontFamily,
                 quantity, isLoading, savedDesignId, imgVars, canvas, envVars,
                 pageVars, designs>>

\* POST /api/designs answers with an error status, or the request fails
createDesignFailed ==
  /\ \E i \in pendingCreates : afterSave(i, Null)
  /\ lastToast' = "Failed to save design"
  /\ isLoading' = FALSE
  /\ UNCHANGED <<products, fetching, selectedProduct, elements, selectedColor,
                 selectedSize, textInput, textColor, fontSize, fontFamily,
                 quantity, savedDesignId, imgVars, canvas, envVars, pageVars,
                 designs>>

\* the cart mutation resolves
addCartItemOk ==
  /\ \E i \in DOMAIN calls :
       /\ calls[i].awaiting = "addCartItem"
       /\ calls' = Remove(calls, i)
  /\ isLoading' = FALSE
  /\ UNCHANGED <<products, fetching, selectedProduct, elements, selectedColor,
                 selectedSize, textInput, textColor, fontSize, fontFamily,
                 quantity, savedDesignId, imgVars, canvas, envVars, pageVars,
                 designs,
                 cartRequests, lastToast>>

\* the cart mutation rejects
addCartItemFailed ==
  /\ \E i \in DOMAIN calls :
       /\ calls[i].awaiting = "addCartItem"
       /\ calls' = Remove(calls, i)
  /\ isLoading' = FALSE
  /\ lastToast' = "Failed to add to cart"
  /\ UNCHANGED <<products, fetching, selectedProduct, elements, selectedColor,
                 selectedSize, textInput, textColor, fontSize, fontFamily,
                 quantity, savedDesignId, imgVars, canvas, envVars, pageVars,
                 designs,
                 cartRequests>>

(***************************************************************************)
(* The designs page: the listing of the user's designs, and their          *)
(* deletion.                                                               *)
(***************************************************************************)
\* the records of q that are not deleted, in their order
RECURSIVE kept(_)
kept(q) ==
  IF q = <<>> THEN <<>>
  ELSE IF "deleted" \in DOMAIN Head(q) THEN kept(Tail(q))
  ELSE <<Head(q)>> \o kept(Tail(q))

\* what GET /api/designs answers
listDesigns == kept(designs)

\* whether the persistence collaborator holds a design of this id
designExists(id) ==
  \E i \in DOMAIN designs :
    designs[i].id = id /\ "deleted" \notin DOMAIN designs[i]

\* the page is opened, or comes back into focus: the query fetches, when a
\* user is signed in (enabled: !!user)
openDesignsPage ==
  /\ user # NoUser
  /\ ~isFetching
  /\ isFetching' = TRUE
  /\ UNCHANGED <<userDesigns, error, deletePending, profVars>>
  /\ UNCHANGED <<uiVars, imgVars, canvas, envVars, netVars, lastToast>>

\* queryFn: GET /api/designs answers OK
queryFnOk ==
  /\ isFetching
  /\ userDesigns' = listDesigns
  /\ isFetching' = FALSE
  /\ error' = FALSE
  /\ UNCHANGED <<deletePending, profVars>>
  /\ UNCHANGED <<uiVars, imgVars, canvas, envVars, netVars, lastToast>>

\* queryFn throws: the data stays what it was
queryFnFailed ==
  /\ isFetching
  /\ isFetching' = FALSE
  /\ error' = TRUE
  /\ UNCHANGED <<userDesigns, deletePending, profVars>>
  /\ UNCHANGED <<uiVars, imgVars, canvas, envVars, netVars, lastToast>>

\* the grid of designs is shown, with its buttons
gridShown == ~error /\ Len(userDesigns) > 0

\* "Delete" in the dialog of a listed design: deleteDesignMutation.mutate
mutate ==
  /\ gridShown
  /\ deletePending = Null
  /\ \E i \in DOMAIN userDesigns : deletePending' = userDesigns[i].id
  /\ UNCHANGED <<userDesigns, isFetching, error, profVars>>
  /\ UNCHANGED <<uiVars, imgVars, canvas, envVars, netVars, lastToast>>

\* DELETE /api/designs/:id answers OK, the design deleted: onSuccess
\* invalidates the listing, which is fetched again
onSuccess ==
  /\ deletePending # Null
  /\ designExists(deletePending)
  /\ designs' = [i \in DOMAIN designs |->
                   IF designs[i].id = deletePending
                   THEN [id |-> deletePending, deleted |-> TRUE]
                   ELSE designs[i]]
  /\ deletePending' = Null
  /\ isFetching' = TRUE
  /\ lastToast' = "Design deleted successfully!"
  /\ UNCHANGED <<userDesigns, error, profVars>>
  /\ UNCHANGED <<uiVars, imgVars, canvas, envVars, calls, cartRequests>>

\* DELETE /api/designs/:id answers with an error status, as it does for an
\* id it does not hold, or the request fails: onError
onError ==
  /\ deletePending # Null
  /\ deletePending' = Null
  /\ lastToast' = "Failed to delete design"
  /\ UNCHANGED <<userDesigns, isFetching, error, profVars>>
  /\ UNCHANGED <<uiVars, imgVars, canvas, envVars, netVars>>

\* a price of a listed design without the design fee
customPriceOfBase(design) ==
  toFixed2(parseFloat(design.designData.product.basePrice))

\* (parseFloat(design.designData.product.basePrice) + 5).toFixed(2): the price
\* the card of a listed design shows, and the customPrice of its cart item
customPrice(design) ==
  toFixed2(NumAdd(parseFloat(design.designData.product.basePrice),
                  Num(flatDesignFee)))

\* the item addDesignToCart hands to the cart mutation
designCartItemData(design) ==
  [userId |-> user, productId |-> design.designData.product.id,
   designId |-> design.id, quantity |-> 1, size |-> design.designData.size,
   color |-> design.designData.color, customPrice |-> customPrice(design)]

\* "Add to Cart" on the card of a listed design, disabled while the mutation
\* is pending: addDesignToCart up to its await
addDesignToCart ==
  /\ gridShown
  /\ \A i \in DOMAIN calls : calls[i].fn # "addDesignToCart"
  /\ IF user = NoUser
     THEN /\ lastToast' = "Please login to add items to cart"
          /\ UNCHANGED <<calls, cartRequests>>
     ELSE /\ Len(cartRequests) < MaxCart
          /\ \E i \in DOMAIN userDesigns :
               /\ cartRequests' = Append(cartRequests,
                    [item |-> designCartItemData(userDesigns[i]),
                     elements |-> userDesigns[i].designData.elements])
               /\ calls' = Append(calls, [fn |-> "addDesignToCart",
                                          awaiting |-> "mutateAsync",
                                          designId |-> userDesigns[i].id])
          /\ UNCHANGED lastToast
  /\ UNCHANGED <<uiVars, imgVars, canvas, envVars, designs, pageVars>>

\* the cart mutation of addDesignToCart resolves
mutateAsyncOk ==
  /\ \E i \in DOMAIN calls :
       /\ calls[i].fn = "addDesignToCart"
       /\ calls' = Remove(calls, i)
  /\ lastToast' = "Design added to cart!"
  /\ UNCHANGED <<uiVars, imgVars, canvas, envVars, designs, cartRequests,
                 pageVars>>

\* the cart mutation of addDesignToCart rejects
mutateAsyncFailed ==
  /\ \E i \in DOMAIN calls :
       /\ calls[i].fn = "addDesignToCart"
       /\ calls' = Remove(calls, i)
  /\ lastToast' = "Failed to add to cart"
  /\ UNCHANGED <<uiVars, imgVars, canvas, envVars, designs, cartRequests,
                 pageVars>>

(***************************************************************************)
(* The profile page: the display of the user's names and email, and the    *)
(* form that edits them.                                                   *)
(***************************************************************************)
\* the "Edit" button, shown while not editing: setIsEditing(true)
edit ==
  /\ user # NoUser
  /\ ~isEditing
  /\ isEditing' = TRUE
  /\ UNCHANGED <<form, profile, updateProfileMutation, userQueryInvalidated>>
  /\ UNCHANGED <<userDesigns, isFetching, error, deletePending>>
  /\ UNCHANGED <<uiVars, imgVars, canvas, envVars, netVars, lastToast>>

\* typing into the registered inputs of the form
register ==
  /\ user # NoUser
  /\ isEditing
  /\ \E values \in FieldInputs : form' = values /\ values # form
  /\ UNCHANGED <<isEditing, profile, updateProfileMutation,
                 userQueryInvalidated>>
  /\ UNCHANGED <<userDesigns, isFetching, error, deletePending>>
  /\ UNCHANGED <<uiVars, imgVars, canvas, envVars, netVars, lastToast>>

\* "Save Changes", disabled while the mutation is pending: handleSubmit calls
\* onSubmit with the values when they pass the schema, and only shows the
\* errors when they do not
onSubmit ==
  /\ user # NoUser
  /\ isEditing
  /\ updateProfileMutation = Undefined
  /\ IF profileUpdateSchema(form)
     THEN updateProfileMutation' = form
     ELSE UNCHANGED updateProfileMutation
  /\ UNCHANGED <<isEditing, form, profile, userQueryInvalidated>>
  /\ UNCHANGED <<userDesigns, isFetching, error, deletePending>>
  /\ UNCHANGED <<uiVars, imgVars, canvas, envVars, netVars, lastToast>>

\* a handleCancel that leaves the form as it is
handleCancelKeepingForm ==
  /\ user # NoUser
  /\ isEditing
  /\ updateProfileMutation = Undefined
  /\ isEditing' = FALSE
  /\ UNCHANGED <<form, profile, updateProfileMutation, userQueryInvalidated>>
  /\ UNCHANGED <<userDesigns, isFetching, error, deletePending>>
  /\ UNCHANGED <<uiVars, imgVars, canvas, envVars, netVars, lastToast>>

\* "Cancel", disabled while the mutation is pending
handleCancel ==
  /\ user # NoUser
  /\ isEditing
  /\ updateProfileMutation = Undefined
  /\ form' = defaultValues(profile)
  /\ isEditing' = FALSE
  /\ UNCHANGED <<profile, updateProfileMutation, userQueryInvalidated>>
  /\ UNCHANGED <<userDesigns, isFetching, error, deletePending>>
  /\ UNCHANGED <<uiVars, imgVars, canvas, envVars, netVars, lastToast>>

\* PUT /api/user/profile answers OK: onSuccess of updateProfileMutation
updateProfileOnSuccess ==
  /\ updateProfileMutation # Undefined
  /\ updateProfileMutation' = Undefined
  /\ lastToast' = "Profile updated"
  /\ isEditing' = FALSE
  /\ userQueryInvalidated' = TRUE
  /\ UNCHANGED <<form, profile>>
  /\ UNCHANGED <<userDesigns, isFetching, error, deletePending>>
  /\ UNCHANGED <<uiVars, imgVars, canvas, envVars, netVars>>

\* PUT /api/user/profile answers with an error status, or the request
\* fails: onError of updateProfileMutation
updateProfileOnError ==
  /\ updateProfileMutation # Undefined
  /\ updateProfileMutation' = Undefined
  /\ lastToast' = "Error"
  /\ UNCHANGED <<isEditing, form, profile, userQueryInvalidated>>
  /\ UNCHANGED <<userDesigns, isFetching, error, deletePending>>
  /\ UNCHANGED <<uiVars, imgVars, canvas, envVars, netVars>>

\* the invalidated ["/api/user"] query has fetched again: useAuth().user is
\* what the server returned
refetchUser ==
  /\ userQueryInvalidated
  /\ userQueryInvalidated' = FALSE
  /\ \E i \in DOMAIN UserRecords : profile' = UserRecords[i]
  /\ UNCHANGED <<isEditing, form, updateProfileMutation>>
  /\ UNCHANGED <<userDesigns, isFetching, error, deletePending>>
  /\ UNCHANGED <<uiVars, imgVars, canvas, envVars, netVars, lastToast>>

(***************************************************************************)
(* The specifications.  Spec is the whole canvas.  SpecEdit is the editing *)
(* session in which nothing is saved or put in the cart; SpecPersist is    *)
(* the session that saves and adds to the cart the design it builds from   *)
(* shapes on the product the shop lists first.                             *)
(***************************************************************************)
Next ==
  \/ fetchProductsOk
  \/ fetchProductsFailed
  \/ selectProduct
  \/ selectColor
  \/ selectSize
  \/ typeQuantity
  \/ decreaseQuantity
  \/ increaseQuantity
  \/ setTextInput
  \/ tick
  \/ addText
  \/ addShape
  \/ saveDesign
  \/ addToCartWithDesign
  \/ createDesignOk
  \/ createDesignFailed
  \/ addCartItemOk
  \/ addCartItemFailed
  \/ onload
  \/ onerror
  \/ openDesignsPage
  \/ queryFnOk
  \/ queryFnFailed
  \/ mutate
  \/ onSuccess
  \/ onError
  \/ setFontSize
  \/ setFontFamily
  \/ setTextColor
  \/ addDesignToCart
  \/ mutateAsyncOk
  \/ mutateAsyncFailed
  \/ edit
  \/ register
  \/ onSubmit
  \/ handleCancel
  \/ updateProfileOnSuccess
  \/ updateProfileOnError
  \/ refetchUser

Spec == Init /\ [][Next]_vars

NextEdit ==
  \/ fetchProductsOk
  \/ fetchProductsFailed
  \/ selectProduct
  \/ selectColor
  \/ selectSize
  \/ typeQuantity
  \/ decreaseQuantity
  \/ increaseQuantity
  \/ setTextInput
  \/ tick
  \/ addText
  \/ addShape

SpecEdit == Init /\ [][NextEdit]_vars

NextPersist ==
  \/ fetchProductsOk
  \/ fetchProductsFailed
  \/ addShape
  \/ saveDesign
  \/ addToCartWithDesign
  \/ createDesignOk
  \/ createDesignFailed
  \/ addCartItemOk
  \/ addCartItemFailed

SpecPersist == Init /\ [][NextPersist]_vars

\* the session in which the mockup images settle while the product, and its
\* color, are chosen
NextImages ==
  \/ fetchProductsOk
  \/ fetchProductsFailed
  \/ selectProduct
  \/ selectColor
  \/ onload
  \/ onerror

SpecImages == Init /\ [][NextImages]_vars

\* the session in which designs are saved, listed on the designs page and
\* deleted there
NextDesigns ==
  \/ fetchProductsOk
  \/ fetchProductsFailed
  \/ addShape
  \/ saveDesign
  \/ createDesignOk
  \/ createDesignFailed
  \/ openDesignsPage
  \/ queryFnOk
  \/ queryFnFailed
  \/ mutate
  \/ onSuccess
  \/ onError

SpecDesigns == Init /\ [][NextDesigns]_vars

\* the session in which text is added with the font controls
NextFonts ==
  \/ fetchProductsOk
  \/ fetchProductsFailed
  \/ setTextInput
  \/ setFontSize
  \/ setFontFamily
  \/ addText

SpecFonts == Init /\ [][NextFonts]_vars

\* the session in which a design of text elements is saved and then listed
\* on the designs page
NextRoundTrip ==
  \/ fetchProductsOk
  \/ fetchProductsFailed
  \/ setTextInput
  \/ setFontSize
  \/ addText
  \/ saveDesign
  \/ createDesignOk
  \/ createDesignFailed
  \/ openDesignsPage
  \/ queryFnOk
  \/ queryFnFailed

SpecRoundTrip == Init /\ [][NextRoundTrip]_vars

\* no request has been issued in this session
noRequestYet == calls = <<>> /\ designs = <<>> /\ cartRequests = <<>>

\* the session in which designs are saved on the canvas, by the save button
\* or by an add-to-cart, and then put in the cart from the designs page
NextDesignCart ==
  \/ fetchProductsOk
  \/ addShape
  \/ saveDesign
  \/ addToCartWithDesign
  \/ createDesignOk
  \/ addCartItemOk
  \/ openDesignsPage
  \/ queryFnOk
  \/ addDesignToCart
  \/ mutateAsyncOk
  \/ mutateAsyncFailed

SpecDesignCart == Init /\ [][NextDesignCart]_vars

\* the session on the profile page
NextProfile ==
  \/ edit
  \/ register
  \/ onSubmit
  \/ handleCancel
  \/ updateProfileOnSuccess
  \/ updateProfileOnError
  \/ refetchUser

SpecProfile == Init /\ [][NextProfile]_vars

\* the session in which every operation of the canvas on the design is used:
\* selections, quantity, texts, shapes, and one save or add-to-cart with each
\* of its outcomes, the editing going on before, during and after it
NextOperations ==
  \/ fetchProductsOk
  \/ fetchProductsFailed
  \/ selectProduct
  \/ selectColor
  \/ selectSize
  \/ increaseQuantity
  \/ setTextInput
  \/ addText
  \/ addShape
  \/ noRequestYet /\ saveDesign
  \/ noRequestYet /\ addToCartWithDesign
  \/ createDesignOk
  \/ createDesignFailed
  \/ addCartItemOk
  \/ addCartItemFailed

SpecOperations == Init /\ [][NextOperations]_vars

\* the session in which a design of shapes is drawn and saved while the
\* mockup images settle
NextRender ==
  \/ fetchProductsOk
  \/ selectColor
  \/ addShape
  \/ onload
  \/ onerror
  \/ saveDesign
  \/ createDesignFailed

SpecRender == Init /\ [][NextRender]_vars

(***************************************************************************)
(* Properties.                                                             *)
(***************************************************************************)
\* the price a product's unit must show, written out: its base price, and
\* its base price plus 5.00
expectedUnitPrice(id, designed) ==
  CASE id = "p1" /\ ~designed -> <<"2", "0", ".", "0", "0">>
    [] id = "p1" /\ designed -> <<"2", "5", ".", "0", "0">>
    [] id = "p2" /\ ~designed -> <<"1", "5", ".", "5", "0">>
    [] id = "p2" /\ designed -> <<"2", "0", ".", "5", "0">>

\* C1: the unit price shown, and the price of every cart item handed over, is
\* the product's base price when the element sequence it is computed from is
\* empty and the base price plus 5.00 when it holds one element or more,
\* however many.
C1_UnitPriceIsBasePlusFlatFee ==
  /\ selectedProduct # NullProduct =>
       unitPriceText(selectedProduct, elements)
         = expectedUnitPrice(selectedProduct.id, elements # <<>>)
  /\ \A i \in DOMAIN cartRequests :
       cartRequests[i].item.customPrice
         = expectedUnitPrice(cartRequests[i].item.productId,
                             cartRequests[i].elements # <<>>)

\* a cart item built from two elements has been handed over, and the panel
\* shows the price of a design of two elements
C1_Witness ==
  /\ selectedProduct # NullProduct
  /\ Len(elements) = 2
  /\ \E i \in DOMAIN cartRequests : Len(cartRequests[i].elements) = 2

\* C2: with a product selected, the total shown is the unit price shown times
\* the quantity (base 20.00, one text element, quantity 3: 75.00); both are
\* computed from the base price, the element sequence and the quantity when
\* they are read.
C2_TotalIsUnitTimesQuantity ==
  selectedProduct # NullProduct /\ quantity # NaN =>
    /\ parseFloat(totalPriceText(selectedProduct, elements, quantity))
         = NumTimes(parseFloat(unitPriceText(selectedProduct, elements)), quantity)
    /\ (selectedProduct.id = "p1" /\ Len(elements) = 1 /\ quantity = Num(3)) =>
         totalPriceText(selectedProduct, elements, quantity)
           = <<"7", "5", ".", "0", "0">>

\* base 20.00, one text element, quantity 3
C2_Witness ==
  /\ selectedProduct # NullProduct
  /\ selectedProduct.id = "p1"
  /\ Len(elements) = 1
  /\ elements[1].type = "text"
  /\ quantity = Num(3)

\* C3: the quantity is always a whole number of at least 1; what is typed is
\* clamped (0 and -3 give 1), an entry that is no number or empty gives 1, and
\* decreasing 1 gives 1.
C3_QuantityAtLeastOne ==
  /\ quantity # NaN
  /\ quantity.v \in Int
  /\ quantity.v >= 1
  /\ quantityFromInput(<<"0">>) = Num(1)
  /\ quantityFromInput(<<"-", "3">>) = Num(1)
  /\ quantityFromInput(<<"x">>) = Num(1)
  /\ quantityFromInput(<<>>) = Num(1)
  /\ quantityDecreased(Num(1)) = Num(1)

\* the quantity controls have moved the quantity off its default
C3_Witness == quantity # NaN /\ quantity.v = MaxQuantity

\* C4: addText with a text input that is empty or all white space changes
\* neither the element sequence nor anything else; with any other input it
\* appends exactly one text element, holding that input.
C4_BlankTextIsNoOp ==
  [][addText =>
       IF \A i \in DOMAIN textInput : textInput[i] = " "
       THEN UNCHANGED vars
       ELSE /\ Len(elements') = Len(elements) + 1
            /\ SubSeq(elements', 1, Len(elements)) = elements
            /\ elements'[Len(elements')].type = "text"
            /\ elements'[Len(elements')].content = textInput]_vars

\* a text element has been added, and the input now holds only white space
C4_Witness ==
  /\ \E i \in DOMAIN elements : elements[i].type = "text"
  /\ textInput = <<" ">>
  /\ Len(elements) < MaxElements

\* C6: whenever a product is selected, the selected color is one of its colors
\* and the selected size is one of its sizes.
C6_SelectionWithinProduct ==
  selectedProduct # NullProduct =>
    /\ selectedColor \in Range(selectedProduct.colors)
    /\ selectedSize \in Range(selectedProduct.sizes)

\* a color and a size other than the product's first have been selected
C6_Witness ==
  /\ selectedProduct # NullProduct
  /\ selectedColor = "black"
  /\ selectedSize = "M"
  /\ selectedProduct.id = "p1"

\* C7: selecting a product makes it the active product, sets the color to its
\* first color and the size to its first size, and leaves the element
\* sequence as it is.
C7_SelectProductKeepsElements ==
  [][selectProduct =>
       /\ \E i \in DOMAIN products : selectedProduct' = products[i]
       /\ selectedProduct' # selectedProduct
       /\ selectedColor' = selectedProduct'.colors[1]
       /\ selectedSize' = selectedProduct'.sizes[1]
       /\ elements' = elements]_vars

\* the product second in the list is selected, after the first one had been,
\* with the elements added before the switch
C7_Witness ==
  /\ Len(products) = 2
  /\ selectedProduct = products[2]
  /\ selectedColor = products[2].colors[1]
  /\ Len(elements) = 2

\* C8, as claimed: a save with no selected product or with no element fails
\* with the validation error, issues no create request, produces no
\* SavedDesign, and leaves the product, the elements and the saved-design id
\* as they were.
C8_InvalidSaveFailsWithValidationError ==
  [][saveDesign /\ (selectedProduct = NullProduct \/ elements = <<>>) =>
       /\ lastToast' = "Please select a product and add some design elements"
       /\ UNCHANGED <<calls, designs, selectedProduct, elements, savedDesignId>>]_vars

\* C8, amended: such a save issues no create request, produces no SavedDesign
\* and changes nothing of the design state; it fails with the validation
\* error when a user is signed in, and with the sign-in error when none is.
C8_InvalidSaveIsRejected ==
  [][saveDesign /\ (selectedProduct = NullProduct \/ elements = <<>>) =>
       /\ lastToast' = IF user = NoUser
                       THEN "Please login to save designs"
                       ELSE "Please select a product and add some design elements"
       /\ UNCHANGED <<uiVars, imgVars, canvas, envVars, netVars>>]_vars

\* a signed-in user's save of a design without elements has been refused
C8_Witness ==
  /\ user # NoUser
  /\ selectedProduct # NullProduct
  /\ elements = <<>>
  /\ lastToast = "Please select a product and add some design elements"
  /\ calls = <<>>
  /\ designs = <<>>
  /\ savedDesignId = Null

\* C9: once the session has a saved-design id, a save that succeeds returns
\* that same id and creates no further SavedDesign.
C9_ResaveKeepsIdentifier ==
  [][createDesignOk /\ savedDesignId # Null =>
       /\ savedDesignId' = savedDesignId
       /\ Len(designs') = Len(designs)]_vars

\* C10: a cart item built from a design that has elements carries the
\* identifier of a SavedDesign, never null.
C10_CustomCartItemHasDesign ==
  \A i \in DOMAIN cartRequests :
    cartRequests[i].elements # <<>> => cartRequests[i].item.designId # Null

\* C11: a save or an add-to-cart made with no signed-in user is refused with
\* the sign-in message: it issues no create request and no cart request,
\* creates no SavedDesign, and leaves the product, color, size, quantity,
\* elements and saved-design id as they were.
C11_UnauthenticatedIsRejected ==
  [][user = NoUser =>
       /\ saveDesign => lastToast' = "Please login to save designs"
       /\ addToCartWithDesign => lastToast' = "Please login to add items to cart"
       /\ (saveDesign \/ addToCartWithDesign) =>
            /\ UNCHANGED <<calls, designs, cartRequests>>
            /\ DesignState' = DesignState
            /\ UNCHANGED isLoading]_vars

\* an add-to-cart of a design with elements was refused for want of a user
C11_Witness ==
  /\ user = NoUser
  /\ selectedProduct # NullProduct
  /\ elements # <<>>
  /\ lastToast = "Please login to add items to cart"
  /\ calls = <<>>
  /\ cartRequests = <<>>
  /\ designs = <<>>

\* C12, as claimed: when a save or an add-to-cart ends in a failed request,
\* the failure changes nothing of the DesignState, and the saved-design id
\* the call leaves behind is the one it started with.
C12_FailedCallLeavesStateUnchanged ==
  [][/\ (createDesignFailed \/ addCartItemFailed) => DesignState' = DesignState
     /\ \A i \in DOMAIN calls :
          (/\ calls[i].awaiting = "addCartItem"
           /\ calls' = Remove(calls, i)
           /\ addCartItemFailed) =>
            calls[i].designId = calls[i].savedDesignId]_vars

\* C12, amended: no step of a save or an add-to-cart, failure or not, changes
\* the product, color, size, quantity or elements; a failed request changes
\* nothing of the DesignState; the saved-design id changes only when a create
\* request succeeds, and it stays changed when the cart request of the same
\* add-to-cart fails afterwards.
C12_FailedRequestLeavesStateUnchanged ==
  [][/\ (createDesignFailed \/ addCartItemFailed) => DesignState' = DesignState
     /\ (saveDesign \/ addToCartWithDesign \/ createDesignOk \/ addCartItemOk) =>
          /\ UNCHANGED <<selectedProduct, selectedColor, selectedSize, quantity,
                         elements>>
          /\ savedDesignId' # savedDesignId => createDesignOk]_vars

\* the cart request of an add-to-cart has failed after the save the call made
\* on its way had succeeded
C12_Witness ==
  /\ lastToast = "Failed to add to cart"
  /\ calls = <<>>
  /\ elements # <<>>
  /\ Len(designs) = 1
  /\ savedDesignId = designs[1].id
  /\ \E i \in DOMAIN cartRequests : cartRequests[i].item.designId = savedDesignId

\* C13: every cart item handed to the cart mutation carries the id of the
\* selected product, the quantity, size and color of the state its handler
\* ran in, the unit price of that state, and a design id that is null when
\* that state has no element and the id of a saved design when it has any.
C13_CartItemCarriesSelection ==
  [][Len(cartRequests') > Len(cartRequests) =>
       LET item == cartRequests'[Len(cartRequests')].item IN
       /\ addToCartWithDesign =>
            /\ item.productId = selectedProduct.id
            /\ item.quantity = quantity
            /\ item.size = selectedSize
            /\ item.color = selectedColor
            /\ item.customPrice
                 = expectedUnitPrice(selectedProduct.id, elements # <<>>)
            /\ item.designId = Null <=> elements = <<>>
       /\ \A i \in pendingCreates :
            (/\ calls[i].fn = "addToCartWithDesign"
             /\ Len(calls') = Len(calls)
             /\ calls'[i].awaiting = "addCartItem") =>
              /\ item.productId = calls[i].product.id
              /\ item.quantity = calls[i].quantity
              /\ item.size = calls[i].size
              /\ item.color = calls[i].color
              /\ item.customPrice
                   = expectedUnitPrice(calls[i].product.id,
                                       calls[i].elements # <<>>)
              /\ item.designId = Null <=> calls[i].elements = <<>>]_vars

\* C14: the ids of the elements of the design are pairwise distinct, also
\* when two elements are added without the clock having advanced between them.
C14_ElementIdsDistinct ==
  \A i, j \in DOMAIN elements : i # j => elements[i].id # elements[j].id

\* C15: once the five images have settled, in whatever order, a color whose
\* image failed has the white image in the map whenever the white image
\* loaded, and a render with that color selected draws the white image; such
\* a color is drawn as a solid fill only when the white image did not load.
C15_FailedColorFallsBackToWhite ==
  (\A color \in Range(colors) : imagePromises[color] # "pending") =>
    \A color \in Range(colors) \ {"white"} :
      (imagePromises[color] = "failed" /\ imagePromises["white"] = "loaded") =>
        /\ imageOf(tshirtImages, color) = Image("white")
        /\ (selectedProduct # NullProduct /\ selectedColor = color) =>
             canvas[2] = fitImage(Image("white"))

\* C16: the canvas always shows a finished render of the current state.  As
\* long as one of the five images has not settled, however long that lasts,
\* the images-loaded flag is false and the background is the solid fill of
\* the selected color; as soon as all five have settled, by load or by
\* error, the flag is true, the map of images is the one that was filled,
\* and the canvas has been drawn again with them.
C16_RenderNeverWaitsForImages ==
  /\ canvas = drawCanvas(selectedProduct, selectedColor, elements, tshirtImages,
                         imagesLoaded)
  /\ IF \E color \in Range(colors) : imagePromises[color] = "pending"
     THEN /\ ~imagesLoaded
          /\ canvas[2] = fillCanvas(solidFill(selectedColor))
     ELSE /\ imagesLoaded
          /\ tshirtImages = imageMap
          /\ canvas[2] = drawBackground(selectedProduct, selectedColor, imageMap,
                                        TRUE)

\* all five images have settled, one of them by error, and the canvas shows
\* the black product on its mockup
C16_Witness ==
  /\ \A color \in Range(colors) : imagePromises[color] # "pending"
  /\ \E color \in Range(colors) : imagePromises[color] = "failed"
  /\ imagesLoaded
  /\ selectedProduct # NullProduct
  /\ selectedColor = "black"
  /\ canvas[2] = fitImage(Image("black"))

\* C17: deleting from the listing a design the persistence collaborator does
\* not hold, which it answers with a failure, is treated as a success: the
\* success message is shown and the listing is invalidated and fetched again.
C17_DeleteOfMissingDesignSucceeds ==
  [][(deletePending # Null /\ ~designExists(deletePending)
      /\ deletePending' = Null) =>
       /\ lastToast' = "Design deleted successfully!"
       /\ isFetching']_vars

\* C20: every text element of the design has a font size that is a whole
\* number above zero and a font family that is not empty, whatever was
\* entered in the font-size input before the text was added, nothing, zero
\* and a negative number included; left alone, the controls give size 24 and
\* family Arial.
C20_TextFontIsValid ==
  \A i \in DOMAIN elements :
    elements[i].type = "text" =>
      /\ elements[i].fontSize # NaN
      /\ elements[i].fontSize.v \in Nat \ {0}
      /\ elements[i].fontFamily # ""

\* C19, as claimed: with a product selected, the label the canvas shows holds
\* the product's name, the selected color (in either case) and the selected
\* size.
C19_LabelShowsColorAndSize ==
  selectedProduct # NullProduct =>
    LET text == canvas[Len(canvas)].text IN
    /\ selectedProduct.name \in Range(text)
    /\ selectedColor \in Range(text) \/ toUpperCase(selectedColor) \in Range(text)
    /\ selectedSize \in Range(text)

\* C19, amended: selecting a color stores one of the product's colors, leaves
\* the size, and the canvas is drawn again with the label "name - COLOR", the
\* color in upper case; selecting a size stores one of the product's sizes
\* and leaves the color and the canvas as they are, the label holding no size.
C19_LabelShowsProductAndColor ==
  [][/\ selectColor =>
          /\ selectedColor' \in Range(selectedProduct.colors)
          /\ UNCHANGED selectedSize
          /\ canvas'[Len(canvas')].text
               = <<selectedProduct.name, " - ", toUpperCase(selectedColor')>>
     /\ selectSize =>
          /\ selectedSize' \in Range(selectedProduct.sizes)
          /\ UNCHANGED <<selectedColor, canvas>>
          /\ selectedSize' \notin Range(canvas'[Len(canvas')].text)]_vars

\* the color and the size of the first product that are not its first have
\* been selected, and the label shows the product and that color
C19_Witness ==
  /\ selectedProduct # NullProduct
  /\ selectedColor = "black"
  /\ selectedSize = "M"
  /\ canvas[Len(canvas)].text = <<"Classic Tee", " - ", "BLACK">>

\* C18: the payload of a save holds exactly the product, the color, the size
\* and the element sequence of the state it was invoked in; the record made
\* from it holds that payload; and every design the designs page has loaded
\* is such a record, its elements drawing as the record's do.
C18_PayloadRoundTrips ==
  [][/\ (saveDesign /\ Len(calls') > Len(calls)) =>
          LET payload == calls'[Len(calls')].body.designData IN
          /\ payload.product = selectedProduct
          /\ payload.color = selectedColor
          /\ payload.size = selectedSize
          /\ payload.elements = elements
     /\ createDesignOk =>
          \E i \in pendingCreates :
            designs'[Len(designs')].designData = calls[i].body.designData
     /\ queryFnOk =>
          \A i \in DOMAIN userDesigns' :
            \E j \in DOMAIN designs :
              /\ userDesigns'[i].id = designs[j].id
              /\ userDesigns'[i].designData = designs[j].designData
              /\ drawElements(userDesigns'[i].designData.elements)
                   = drawElements(designs[j].designData.elements)]_vars

\* C21: in every state the canvas shows the drawing of the current product,
\* color, elements and images, each change of them being followed by a new
\* drawing; and the thumbnail a save sends is the picture of the drawing of
\* the state it saves.
C21_CanvasShowsCurrentState ==
  /\ [](canvas = drawCanvas(selectedProduct, selectedColor, elements,
                            tshirtImages, imagesLoaded))
  /\ [][(saveDesign /\ Len(calls') > Len(calls)) =>
          calls'[Len(calls')].body.thumbnail
            = toDataURL(drawCanvas(selectedProduct, selectedColor, elements,
                                   tshirtImages, imagesLoaded))]_vars

\* a design of two elements is being saved with a thumbnail that shows them
\* on the mockup image
C21_Witness ==
  \E i \in DOMAIN calls :
    /\ calls[i].fn = "saveDesign"
    /\ Len(calls[i].body.designData.elements) = 2
    /\ Len(calls[i].body.thumbnail.png) = 7
    /\ calls[i].body.thumbnail.png[2].op = "drawImage"

\* the fill colors of the table: white, black, navy-blue, red, off-white
tableFill(color) ==
  CASE color = "white" -> "#ffffff"
    [] color = "black" -> "#000000"
    [] color = "navy" -> "#1e3a8a"
    [] color = "red" -> "#ef4444"
    [] color = "natural" -> "#f5f5dc"
    [] OTHER -> "#ffffff"

\* C22 as stated: the background is the mockup image of the selected color
\* exactly when the image map holds one for that color, and the solid color of
\* the table otherwise.
C22_ImageDrawnWhenAvailable ==
  IF selectedColor \in DOMAIN tshirtImages
  THEN canvas[2] = fitImage(tshirtImages[selectedColor])
  ELSE canvas[2] = fillCanvas(tableFill(selectedColor))

\* C22: the background is the mockup image of the selected color, fitted,
\* exactly when a product is selected and the image map holds an image for
\* that color; otherwise it is the solid color of the table.
C22_ImageDrawnWhenProductAndAvailable ==
  IF selectedProduct # NullProduct /\ selectedColor \in DOMAIN tshirtImages
  THEN canvas[2] = fitImage(tshirtImages[selectedColor])
  ELSE canvas[2] = fillCanvas(tableFill(selectedColor))

\* the images have settled with one for the selected color while no product
\* is selected, and the canvas has the solid fill
C22_Witness ==
  /\ selectedProduct = NullProduct
  /\ selectedColor \in DOMAIN tshirtImages
  /\ canvas[2].op = "fillRect"

\* the draw call that shows an element
showsElement(call, el) ==
  /\ call.op = (IF el.type = "text" THEN "fillText"
                ELSE IF el.content = rectangle THEN "fillRect" ELSE "arc")
  /\ call.fillStyle = el.color
  /\ el.type = "text" => call.text = el.content

\* what the drawing is made from
renderInputs ==
  <<selectedProduct, selectedColor, elements, tshirtImages, imagesLoaded>>

\* C23: the canvas holds, in this order, the clearing, the background, the
\* border, one drawing per element in the order of the element sequence, and
\* last the overlay of the selected product; a step that leaves product,
\* color, elements and images as they were leaves the drawing as it was, and
\* the drawing is a function of these alone, so drawing again changes
\* nothing.
C23_DrawOrderIsFixed ==
  /\ [](/\ Len(canvas) = 3 + Len(elements)
                           + (IF selectedProduct # NullProduct THEN 2 ELSE 0)
        /\ canvas[1].op = "clearRect"
        /\ canvas[2].op \in {"drawImage", "fillRect"}
        /\ canvas[2].width <= canvasWidth /\ canvas[2].height <= canvasHeight
        /\ canvas[3].op = "strokeRect"
        /\ \A i \in DOMAIN elements : showsElement(canvas[3 + i], elements[i])
        /\ selectedProduct # NullProduct =>
             /\ canvas[Len(canvas) - 1].op = "fillRect"
             /\ canvas[Len(canvas) - 1].fillStyle = "rgba(0, 0, 0, 0.7)"
             /\ canvas[Len(canvas)].op = "fillText"
             /\ canvas[Len(canvas)].textAlign = "left")
  /\ [][renderInputs' = renderInputs => canvas' = canvas]_vars

\* a text and a circle are drawn under the overlay of the selected product
C23_Witness ==
  /\ selectedProduct # NullProduct
  /\ Len(elements) = 2
  /\ elements[1].type = "text"
  /\ elements[2].type = "shape" /\ elements[2].content = circle
  /\ canvas[4].op = "fillText" /\ canvas[5].op = "arc"
  /\ canvas[7].op = "fillText"

\* C24: in every step of every operation the element sequence before the step
\* is a prefix of the one after it; it changes only in addText with a text
\* that is not blank and in addShape, by exactly one element at its end.
C24_ElementsAppendOnly ==
  [][/\ Len(elements') >= Len(elements)
     /\ SubSeq(elements', 1, Len(elements)) = elements
     /\ elements' # elements =>
          /\ Len(elements') = Len(elements) + 1
          /\ \/ addText /\ ~textIsBlank(textInput)
             \/ addShape]_vars

\* a text and a shape were appended, the design was saved and put in the cart
C24_Witness ==
  /\ Len(elements) = 2
  /\ elements[1].type = "text"
  /\ elements[2].type = "shape"
  /\ savedDesignId # Null
  /\ cartRequests # <<>>

\* C25: as long as a call of add-to-cart is under way, awaiting its implicit
\* save or its cart request, the loading flag is true, so the buttons are
\* disabled and no second save or add-to-cart starts.
C25_LoadingUntilCartSettles ==
  \A i \in DOMAIN calls :
    calls[i].fn = "addToCartWithDesign" => isLoading /\ ~buttonsEnabled

\* C26: in every step that submits a cart item with a design id, the saved
\* design of that id holds the product, color, size and element sequence the
\* canvas has at that step.
C26_CartDesignIsCurrentState ==
  [][Len(cartRequests') > Len(cartRequests) =>
       LET item == cartRequests'[Len(cartRequests')].item IN
       item.designId # Null =>
         \E i \in DOMAIN designs' :
           /\ designs'[i].id = item.designId
           /\ designs'[i].designData
                = stringify([designData |->
                              [product |-> selectedProduct',
                               elements |-> elements',
                               color |-> selectedColor',
                               size |-> selectedSize']]).designData]_vars

\* the requests a call has yet to await before it ends
awaitsLeft(call) ==
  IF call.fn = "addToCartWithDesign" /\ call.awaiting = "createDesign"
  THEN 2 ELSE 1

RECURSIVE awaitsOf(_)
awaitsOf(cs) ==
  IF cs = <<>> THEN 0 ELSE awaitsLeft(Head(cs)) + awaitsOf(Tail(cs))

\* C27: the loading flag is false whenever no call of save or add-to-cart is
\* under way; every call under way awaits a request that was issued; each
\* answer to a request, success or failure, brings the calls nearer to their
\* end (a save ends with its one request, an add-to-cart after at most two),
\* and a call that ends leaves the flag false.
C27_LoadingEndsFalse ==
  /\ [](/\ (calls = <<>> => ~isLoading)
        /\ \A i \in DOMAIN calls :
             /\ calls[i].awaiting \in {"createDesign", "addCartItem"}
             /\ (calls[i].awaiting = "addCartItem" => cartRequests # <<>>))
  /\ [][/\ (createDesignOk \/ createDesignFailed
              \/ addCartItemOk \/ addCartItemFailed) =>
              awaitsOf(calls') < awaitsOf(calls)
         /\ (Len(calls') < Len(calls) => ~isLoading')]_vars

\* an add-to-cart saved the design, its cart request was rejected, and no
\* call is left
C27_Witness ==
  /\ calls = <<>>
  /\ ~isLoading
  /\ savedDesignId # Null
  /\ lastToast = "Failed to add to cart"

\* C28: the saved-design id is set only while a product is selected and the
\* element sequence is not empty, and it is then the id of the design the
\* latest successful save created; it changes only when a save succeeds, and
\* a save that fails leaves it as it was.
C28_SavedIdIsLatestSave ==
  /\ [](savedDesignId # Null =>
          /\ selectedProduct # NullProduct
          /\ elements # <<>>
          /\ designs # <<>>
          /\ savedDesignId = designs[Len(designs)].id)
  /\ [][/\ (savedDesignId' # savedDesignId =>
               /\ createDesignOk
               /\ savedDesignId' = designs'[Len(designs')].id)
         /\ (createDesignFailed => savedDesignId' = savedDesignId)]_vars

\* after a successful save a second save has failed, and the id is still that
\* of the first
C28_Witness ==
  /\ calls = <<>>
  /\ Len(designs) = 1
  /\ savedDesignId = designs[1].id
  /\ lastToast = "Failed to save design"

\* C29: every design the canvas has saved holds at least one element, so the
\* price the designs page shows for a listed design, which is also the
\* customPrice of the cart item it submits with quantity 1, is the unit price
\* the canvas computes for the product and elements of that design.
C29_PagePriceIsCanvasPrice ==
  /\ [](/\ \A i \in DOMAIN designs :
             "designData" \in DOMAIN designs[i] =>
               Len(designs[i].designData.elements) >= 1
        /\ \A i \in DOMAIN userDesigns :
             customPrice(userDesigns[i])
               = unitPriceText(userDesigns[i].designData.product,
                               userDesigns[i].designData.elements))
  /\ [][(addDesignToCart /\ Len(cartRequests') > Len(cartRequests)) =>
          LET request == cartRequests'[Len(cartRequests')] IN
          /\ request.item.quantity = 1
          /\ \E i \in DOMAIN userDesigns :
               /\ request.item.designId = userDesigns[i].id
               /\ request.item.customPrice
                    = unitPriceText(userDesigns[i].designData.product,
                                    userDesigns[i].designData.elements)]_vars

\* a design of the tote bag was put in the cart from the designs page at
\* 15.5 + 5
C29_Witness ==
  \E i \in DOMAIN cartRequests :
    /\ "userId" \in DOMAIN cartRequests[i].item
    /\ cartRequests[i].item.productId = "p2"
    /\ cartRequests[i].item.customPrice = <<"2", "0", ".", "5", "0">>

\* C30: on the profile page editing starts only with the Edit button and ends
\* only with Cancel, which puts the names and email of the user into the
\* form, or with the success of an update; the failure of an update leaves
\* the page editing and the form as it was; and the user query is invalidated
\* only by the success of an update.
C30_EditingModeTransitions ==
  [][/\ (~isEditing /\ isEditing' => edit)
     /\ (isEditing /\ ~isEditing' => handleCancel \/ updateProfileOnSuccess)
     /\ (handleCancel =>
           /\ form'.firstName
                = (IF profile.firstName = Null THEN "" ELSE profile.firstName)
           /\ form'.lastName = profile.lastName
           /\ form'.email = profile.email)
     /\ (updateProfileOnError => isEditing' /\ form' = form)
     /\ (~userQueryInvalidated /\ userQueryInvalidated' =>
           updateProfileOnSuccess)]_vars

\* an update has failed: the page is still editing, with entered values that
\* are not those of the user
C30_Witness ==
  /\ isEditing
  /\ lastToast = "Error"
  /\ updateProfileMutation = Undefined
  /\ form.email # profile.email

====
